---- MODULE Spec2Model ----
(***************************************************************************)
(* Model of torchns.ns.NestedSampler: construction, the slice-sampling     *)
(* proposal kernel (_gen_new_samples), the nested-sampling driver loop     *)
(* (nested_sampling) and generate_constrained_prior_samples.               *)
(*                                                                         *)
(* Representation.                                                         *)
(*  - Points are one-dimensional and lie on an integer grid (Coords); the  *)
(*    unit cube is the grid cells 0 and 1.                                 *)
(*  - A log-likelihood is an integer l standing for l*log(2); NegInf       *)
(*    stands for -inf and PosInf for +inf, so np.exp(l) is Exp(l) = 2^l    *)
(*    exactly.                                                             *)
(*  - Volumes, evidences and weights are exact rationals [num, den] in     *)
(*    lowest terms; den = 0 is +inf.  np.log(q) of a rational q is         *)
(*    represented by q itself (log is strictly increasing, so order and    *)
(*    equality of logs are those of their arguments) and a sum of logs by  *)
(*    the product of the arguments.  Floating-point rounding is not        *)
(*    modelled.                                                            *)
(*  - The Cholesky factor of a one-dimensional sample is the square root   *)
(*    of its variance; it is represented by the variance.                  *)
(***************************************************************************)
EXTENDS Integers, Sequences, FiniteSets, TLC

\* ------------------------------------------------------------ bounds
\* max_steps of a full run
MaxIter == 2
\* half-width of the slice bracket, in grid cells (max_step_size * Lchol)
StepScale == 2

\* -np.inf, the initial log-likelihood of a chain
NegInf == -1
\* np.inf, the default logl_th_max; above every level
PosInf == 3

\* the grid: one cell below the unit cube, and the cube's two cells
Coords == {-1, 0, 1}
\* log-likelihoods a caller passes as L_init
Levels == {0, 1, 2}
\* log-likelihoods the oracle returns
OracleLevels == {1, 2}

None == <<>>

\* ------------------------------------------------------------ rationals
RECURSIVE GCD(_, _)
GCD(a, b) == IF b = 0 THEN a ELSE GCD(b, a % b)

Norm(r) ==
  IF r.den = 0 THEN [num |-> 1, den |-> 0]
  ELSE LET g == GCD(r.num, r.den) IN [num |-> r.num \div g, den |-> r.den \div g]

Rat(n, d) == Norm([num |-> n, den |-> d])
RMul(a, b) == Rat(a.num * b.num, a.den * b.den)
LCM(a, b) == (a \div GCD(a, b)) * b
RAdd(a, b) ==
  IF a.den = 0 \/ b.den = 0 THEN Rat(1, 0)
  ELSE LET m == LCM(a.den, b.den)
       IN  Rat(a.num * (m \div a.den) + b.num * (m \div b.den), m)
\* a < b; nothing is above +inf, and +inf is below nothing
RLess(a, b) ==
  IF a.den = 0 THEN FALSE
  ELSE IF b.den = 0 THEN TRUE
  ELSE LET m == LCM(a.den, b.den)
       IN  a.num * (m \div a.den) < b.num * (m \div b.den)

RECURSIVE Pow2(_)
Pow2(n) == IF n = 0 THEN 1 ELSE 2 * Pow2(n - 1)

\* np.exp / torch.exp of a log-likelihood
Exp(l) ==
  IF l = NegInf THEN Rat(0, 1)
  ELSE IF l = PosInf THEN Rat(1, 0)
  ELSE Rat(Pow2(l), 1)

\* ------------------------------------------------------------ sequences
RECURSIVE SeqSum(_)
SeqSum(s) == IF s = <<>> THEN 0 ELSE Head(s) + SeqSum(Tail(s))

Squares(s) == [k \in 1..Len(s) |-> s[k] * s[k]]

\* Tensor.min() / Tensor.max()
Min(s) == CHOOSE m \in {s[k] : k \in 1..Len(s)} : \A k \in 1..Len(s) : m <= s[k]
Max(s) == CHOOSE m \in {s[k] : k \in 1..Len(s)} : \A k \in 1..Len(s) : m >= s[k]

\* np.argmin: the first index of the minimum
ArgMin(s) == CHOOSE k \in 1..Len(s) : s[k] = Min(s) /\ \A h \in 1..(k - 1) : s[h] # Min(s)

\* X[mask]: the entries whose mask is true, in order
RECURSIVE Select(_, _)
Select(s, mask) ==
  IF s = <<>> THEN <<>>
  ELSE (IF Head(mask) THEN <<Head(s)>> ELSE <<>>) \o Select(Tail(s), Tail(mask))

\* ------------------------------------------------------------ helpers of the class
\* (X <= 1).prod(-1) * (X >= 0).prod(-1)
_inbound_unitcube_no_lower(x) == x <= 1
_inbound_unitcube(x) == (x <= 1) /\ (x >= 0)

\* torch.cov and its Cholesky factor.  LcholFail stands for the
\* LinAlgError of a covariance that is zero (the repair subtracts 2*0*I and
\* the retry fails again) or undefined (fewer than two points).
LcholFail == [num |-> 0, den |-> 0]
_calc_Lchol(X) ==
  LET n == Len(X)
      s == SeqSum(X)
      q == SeqSum(Squares(X))
  IN  IF n < 2 \/ n * q - s * s = 0 THEN LcholFail
      ELSE Rat(n * q - s * s, n * (n - 1))

\* the slice sample positions of one chain: S draws, each from the current
\* bracket [lo, hi), the bracket shrinking to the draw on its side of 0.
RECURSIVE slice_sample_points_from(_, _, _)
slice_sample_points_from(S, lo, hi) ==
  IF S = 0 THEN {<<>>}
  ELSE UNION {
         {<<x>> \o rest :
            rest \in slice_sample_points_from(S - 1,
                                     IF x < 0 THEN x ELSE lo,
                                     IF x > 0 THEN x ELSE hi)}
         : x \in lo..(hi - 1)}

_get_slice_sample_points(S) == slice_sample_points_from(S, 0 - StepScale, StepScale)

\* in one dimension a unit vector is +1 or -1
_get_directions == {-1, 1}

\* ------------------------------------------------------------ state
VARIABLES
  pc,            \* where the program is
  X_init,        \* __init__'s X_init
  L_init,        \* __init__'s L_init (None when not given)
  logl_fn,       \* the likelihood oracle, a function of the point
  X_live,        \* live points
  L_live,        \* live log-likelihoods
  arg,           \* the arguments of the running nested_sampling call
  it,            \* iterations of the driver loop begun so far
  exit,          \* how the driver loop was left
  V, Z, Z_rest,  \* volume, evidence, remaining evidence
  logl_th,       \* the driver's threshold
  samples_X, samples_logl, samples_logv, samples_Z, samples_logwt,
  X_new, L_new,  \* the batch the kernel returned
  j,             \* index of the candidate being processed (line 145)
  k,             \* the kernel's frame (_gen_new_samples), None outside it
  g              \* the frame of generate_constrained_prior_samples, None outside it

archive == <<samples_X, samples_logl, samples_logv, samples_Z, samples_logwt>>
vars == <<pc, X_init, L_init, logl_fn, X_live, L_live, arg, it, exit, V, Z, Z_rest,
          logl_th, samples_X, samples_logl, samples_logv, samples_Z, samples_logwt,
          X_new, L_new, j, k, g>>

NLP == Len(X_live)

Seqs(S, n) == [1..n -> S]

\* the samplers built: every X_init of one or two points with every L_init,
\* and three points, one of them apart, with some L_init
Samplers ==
  {[X |-> x, L |-> l] : x \in Seqs(Coords, 1), l \in {None} \cup Seqs(Levels, 1)}
  \cup {[X |-> x, L |-> l] : x \in Seqs(Coords, 2), l \in {None} \cup Seqs(Levels, 2)}
  \cup {[X |-> <<0, 1, 1>>, L |-> l] : l \in {None, <<0, 2, 2>>, <<0, 1, 2>>}}

Oracles == [Coords -> OracleLevels]

\* the state before __init__, for a sampler among `samplers`
InitWith(samplers) ==
  /\ pc = "new"
  /\ \E s \in samplers : X_init = s.X /\ L_init = s.L
  /\ logl_fn \in Oracles
  /\ X_live = None /\ L_live = None
  /\ arg = None /\ it = 0 /\ exit = "none"
  /\ V = Rat(1, 1) /\ Z = Rat(0, 1) /\ Z_rest = Rat(1, 0)
  /\ logl_th = NegInf
  /\ samples_X = <<>> /\ samples_logl = <<>> /\ samples_logv = <<>>
  /\ samples_Z = <<>> /\ samples_logwt = <<>>
  /\ X_new = <<>> /\ L_new = <<>> /\ j = 0
  /\ k = None
  /\ g = None

Init == InitWith(Samplers)

\* ------------------------------------------------------------ __init__
\* lines 11-23 with bound = "unitcube": the assert rejects the sampler
Construct ==
  /\ pc = "new"
  /\ IF \A h \in 1..Len(X_init) : _inbound_unitcube(X_init[h])
       THEN /\ pc' = "ready"
            /\ X_live' = X_init
            /\ L_live' = L_init
       ELSE /\ pc' = "rejected"
            /\ UNCHANGED <<X_live, L_live>>
  /\ UNCHANGED <<X_init, L_init, logl_fn, arg, it, exit, V, Z, Z_rest, logl_th,
                 archive, X_new, L_new, j, k, g>>

\* ------------------------------------------------------------ _gen_new_samples
\* lines 65-70: the frame of a call; the Lchol argument is None or <<factor>>
KernelFrame(caller, X_seeds, th, num_steps, S, Lchol) ==
  [caller |-> caller,
   logl_th |-> th,
   num_steps |-> num_steps,
   S |-> S,
   LcholArg |-> Lchol,
   Lchol |-> IF Lchol = None THEN _calc_Lchol(X_seeds) ELSE Lchol[1],
   X_seeds |-> X_seeds,
   X |-> X_seeds,
   logl |-> [b \in 1..Len(X_seeds) |-> NegInf],
   C |-> [b \in 1..Len(X_seeds) |-> 0],
   hist |-> [b \in 1..Len(X_seeds) |-> <<>>],
   i |-> 0,
   b |-> 1,
   pX |-> <<>>]

\* line 81: accept_matrix of one chain
AcceptRow(pX, th) ==
  [c \in 1..Len(pX) |-> (logl_fn[pX[c]] > th) /\ _inbound_unitcube(pX[c])]

\* line 82: torch.argmax of a 0/1 row is its first 1, or index 0 of a row of 0s
LastTrue(row) ==
  IF \E c \in 1..Len(row) : row[c]
    THEN CHOOSE c \in 1..Len(row) : row[c] /\ \A d \in (c + 1)..Len(row) : ~row[d]
    ELSE 1
FirstTrue(row) ==
  IF \E c \in 1..Len(row) : row[c]
    THEN CHOOSE c \in 1..Len(row) : row[c] /\ \A d \in 1..(c - 1) : ~row[d]
    ELSE 1

\* line 85
AcceptAny(row) == \E c \in 1..Len(row) : row[c]

\* lines 72-88 for chain k.b of slice step k.i (the chains of a step are
\* independent: the batch is walked chain by chain)
SliceStep ==
  /\ pc = "kernel"
  /\ k.Lchol # LcholFail
  /\ k.i < k.num_steps
  /\ \E n \in _get_directions, L \in _get_slice_sample_points(k.S) :
       LET b == k.b
           pX == [c \in 1..k.S |-> k.X[b] + n * L[c]]
       IN  /\ \A c \in 1..k.S : pX[c] \in Coords
           /\ LET row == AcceptRow(pX, k.logl_th)
                  idx == FirstTrue(row)
                  any == AcceptAny(row)
                  last == (b = Len(k.X))
              IN  k' = [k EXCEPT
                          !.pX = pX,
                          !.X[b] = IF any THEN pX[idx] ELSE @,
                          !.logl[b] = IF any THEN logl_fn[pX[idx]] ELSE @,
                          !.C[b] = IF any THEN @ + 1 ELSE @,
                          !.hist[b] = Append(@, any),
                          !.b = IF last THEN 1 ELSE b + 1,
                          !.i = IF last THEN @ + 1 ELSE @]
  /\ UNCHANGED <<pc, X_init, L_init, logl_fn, X_live, L_live, arg, it, exit, V, Z,
                 Z_rest, logl_th, archive, X_new, L_new, j, g>>

\* line 89: X[C == num_steps], logl[C == num_steps]
ReturnMaskAny(C, num_steps) == [b \in 1..Len(C) |-> C[b] >= 1 \/ num_steps = 0]
ReturnMask(C, num_steps) == [b \in 1..Len(C) |-> C[b] = num_steps]

\* line 66 raising: the call, and its caller, end with the error
KernelFail ==
  /\ pc = "kernel"
  /\ k.Lchol = LcholFail
  /\ pc' = "error"
  /\ k' = None
  /\ UNCHANGED <<X_init, L_init, logl_fn, X_live, L_live, arg, it, exit, V, Z,
                 Z_rest, logl_th, archive, X_new, L_new, j, g>>

\* ------------------------------------------------------------ nested_sampling
Std ==
  [logl_th_max |-> PosInf,
   max_steps |-> MaxIter,
   num_batch_samples |-> 2,
   epsilon |-> [num |-> 1, den |-> 8],
   samples_per_slice |-> 1,
   num_steps |-> 1]

\* the calls made: the standard one, and it with one or two arguments changed
Args ==
  {Std,
   [Std EXCEPT !.epsilon = [num |-> 8, den |-> 1]],
   [Std EXCEPT !.logl_th_max = 0],
   [Std EXCEPT !.num_steps = 0],
   [Std EXCEPT !.num_batch_samples = 3, !.max_steps = 1],
   [Std EXCEPT !.samples_per_slice = 2, !.num_steps = 2, !.max_steps = 1]}

\* line 110
B == IF arg.num_batch_samples < NLP THEN arg.num_batch_samples ELSE NLP

\* lines 103-119
StartRun ==
  /\ pc = "ready"
  /\ pc' = "loop"
  /\ arg' \in Args
  /\ L_live' = IF L_live = None THEN [h \in 1..NLP |-> logl_fn[X_live[h]]] ELSE L_live
  /\ V' = Rat(1, 1)
  /\ samples_X' = <<>> /\ samples_logl' = <<>> /\ samples_logv' = <<>>
  /\ samples_Z' = <<>> /\ samples_logwt' = <<>>
  /\ logl_th' = NegInf
  /\ Z' = Rat(0, 1)
  /\ Z_rest' = Rat(1, 0)
  /\ it' = 0
  /\ UNCHANGED <<X_init, L_init, logl_fn, X_live, exit, X_new, L_new, j, k, g>>

\* line 122: range(max_steps) is exhausted
LoopExhausted ==
  /\ pc = "loop"
  /\ it = arg.max_steps
  /\ pc' = "done"
  /\ exit' = "STEP_LIMIT_REACHED"
  /\ UNCHANGED <<X_init, L_init, logl_fn, X_live, L_live, arg, it, V, Z, Z_rest,
                 logl_th, archive, X_new, L_new, j, k, g>>

\* lines 127-133: the threshold is above logl_th_max
ThresholdReached ==
  /\ pc = "loop"
  /\ it < arg.max_steps
  /\ Min(L_live) > arg.logl_th_max
  /\ it' = it + 1
  /\ logl_th' = Min(L_live)
  /\ pc' = "done"
  /\ exit' = "THRESHOLD_REACHED"
  /\ UNCHANGED <<X_init, L_init, logl_fn, X_live, L_live, arg, V, Z, Z_rest,
                 archive, X_new, L_new, j, k, g>>

\* lines 127-134: _calc_Lchol(X_live) raises
LcholError ==
  /\ pc = "loop"
  /\ it < arg.max_steps
  /\ ~(Min(L_live) > arg.logl_th_max)
  /\ _calc_Lchol(X_live) = LcholFail
  /\ it' = it + 1
  /\ logl_th' = Min(L_live)
  /\ pc' = "error"
  /\ UNCHANGED <<X_init, L_init, logl_fn, X_live, L_live, arg, exit, V, Z, Z_rest,
                 archive, X_new, L_new, j, k, g>>

\* lines 127-143: the batch is drawn and the kernel is called
IterBegin ==
  /\ pc = "loop"
  /\ it < arg.max_steps
  /\ ~(Min(L_live) > arg.logl_th_max)
  /\ _calc_Lchol(X_live) # LcholFail
  /\ it' = it + 1
  /\ logl_th' = Min(L_live)
  /\ \E idx_batch \in Seqs(1..NLP, B) :
       k' = KernelFrame("nested_sampling",
                        [b \in 1..B |-> X_live[idx_batch[b]]],
                        Min(L_live), arg.num_steps, arg.samples_per_slice,
                        <<_calc_Lchol(X_live)>>)
  /\ pc' = "kernel"
  /\ UNCHANGED <<X_init, L_init, logl_fn, X_live, L_live, arg, exit, V, Z, Z_rest,
                 archive, X_new, L_new, j, g>>

\* line 89 returning to line 135
KernelReturn ==
  /\ pc = "kernel"
  /\ k.caller = "nested_sampling"
  /\ k.Lchol # LcholFail
  /\ k.i = k.num_steps
  /\ X_new' = Select(k.X, ReturnMask(k.C, k.num_steps))
  /\ L_new' = Select(k.logl, ReturnMask(k.C, k.num_steps))
  /\ j' = 1
  /\ k' = None
  /\ pc' = "process"
  /\ UNCHANGED <<X_init, L_init, logl_fn, X_live, L_live, arg, it, exit, V, Z,
                 Z_rest, logl_th, archive, g>>

\* line 146
ImprovesAlways(l, L) == TRUE
Improves(l, L) == l > Min(L)

\* line 147
ArgFirst(L) == 1
IdxMin(L) == ArgMin(L)

\* line 154: V *= 1 - 1 / NLP
ShrinkNot(v, n) == v
Shrink(v, n) == RMul(v, Rat(n - 1, n))

\* line 155: dZ = V / NLP * np.exp(Lmin)
Increment(v, n, Lmin) == RMul(RMul(v, Rat(1, n)), Exp(Lmin))

\* line 157: Lmin + np.log(V / NLP)
LogWeightNoN(v, n, Lmin) == RMul(Exp(Lmin), v)
LogWeight(v, n, Lmin) == RMul(Exp(Lmin), RMul(v, Rat(1, n)))

\* line 161: break leaves the loop over the batch
NextOnContinue(jj, n) == jj + 1
NextOnBreak(jj, n) == n + 1

\* lines 145-161: one pass of the loop over the returned batch
ProcessCandidate ==
  /\ pc = "process"
  /\ j <= Len(X_new)
  /\ IF Improves(L_new[j], L_live)
       THEN LET idx_min == IdxMin(L_live)
                Lmin == L_live[idx_min]
                Vs == Shrink(V, NLP)
                dZ == Increment(Vs, NLP, Lmin)
                Ls == [L_live EXCEPT ![idx_min] = L_new[j]]
            IN  /\ samples_X' = Append(samples_X, X_live[idx_min])
                /\ samples_logl' = Append(samples_logl, Lmin)
                /\ samples_logv' = Append(samples_logv, V)
                /\ L_live' = Ls
                /\ X_live' = [X_live EXCEPT ![idx_min] = X_new[j]]
                /\ V' = Vs
                /\ samples_Z' = Append(samples_Z, dZ)
                /\ samples_logwt' = Append(samples_logwt, LogWeight(Vs, NLP, Lmin))
                /\ Z' = RAdd(Z, dZ)
                /\ Z_rest' = RMul(Vs, Exp(Max(Ls)))
                /\ j' = j + 1
       ELSE /\ j' = NextOnBreak(j, Len(X_new))
            /\ UNCHANGED <<X_live, L_live, V, Z, Z_rest, archive>>
  /\ UNCHANGED <<pc, X_init, L_init, logl_fn, arg, it, exit, logl_th, X_new, L_new, k, g>>

\* line 162: Z_rest < Z * epsilon
ConvergedSwapped(Zr, Zs, eps) == RLess(RMul(Zs, eps), Zr)
Converged(Zr, Zs, eps) == RLess(Zr, RMul(Zs, eps))

\* lines 162-163, the batch being done
StopCheck ==
  /\ pc = "process"
  /\ j > Len(X_new)
  /\ IF Converged(Z_rest, Z, arg.epsilon)
       THEN pc' = "done" /\ exit' = "CONVERGED"
       ELSE pc' = "loop" /\ exit' = exit
  /\ X_new' = <<>> /\ L_new' = <<>> /\ j' = 0
  /\ UNCHANGED <<X_init, L_init, logl_fn, X_live, L_live, arg, it, V, Z, Z_rest,
                 logl_th, archive, k, g>>

\* ------------------------------------------------------------ generate_constrained_prior_samples
\* the calls made: N seeds, batches of two, one slice step
GenArgs ==
  [N : {2, 3}, min_logl : {NegInf, 1}, batch_size : {2}, num_steps : {1}]

\* line 224 of get_constrained_prior_samples: logl >= min_logl
Mask(min_logl) == [r \in 1..Len(samples_logl) |-> samples_logl[r] >= min_logl]

\* lines 179, 225: the archive holds no record at or above min_logl, and the
\* maximum of an empty tensor raises
GenEmpty ==
  /\ pc = "done"
  /\ \E a \in GenArgs : Select(samples_X, Mask(a.min_logl)) = <<>>
  /\ pc' = "error"
  /\ UNCHANGED <<X_init, L_init, logl_fn, X_live, L_live, arg, it, exit, V, Z,
                 Z_rest, logl_th, archive, X_new, L_new, j, k, g>>

\* lines 179-183: the seeds are resampled from the archive (every record at or
\* above min_logl has a positive weight) and their factor is computed
GenStart ==
  /\ pc = "done"
  /\ \E a \in GenArgs :
       LET pool == Select(samples_X, Mask(a.min_logl))
       IN  /\ pool # <<>>
           /\ \E idx \in Seqs(1..Len(pool), a.N) :
                LET X_seeds == [r \in 1..a.N |-> pool[idx[r]]]
                IN  /\ g' = a @@
                            [X_seeds |-> X_seeds, Lchol |-> _calc_Lchol(X_seeds),
                             i |-> 0, X_samples |-> <<>>, L_samples |-> <<>>]
                    /\ pc' = IF _calc_Lchol(X_seeds) = LcholFail THEN "error" ELSE "gen"
  /\ UNCHANGED <<X_init, L_init, logl_fn, X_live, L_live, arg, it, exit, V, Z,
                 Z_rest, logl_th, archive, X_new, L_new, j, k>>

\* lines 184-188: the next batch goes to the kernel, with no Lchol argument
\* (samples_per_slice is left to its default; one candidate a slice here)
GenBatch ==
  /\ pc = "gen"
  /\ g.i < g.N \div g.batch_size
  /\ k' = KernelFrame("generate_constrained_prior_samples",
                      SubSeq(g.X_seeds, g.i * g.batch_size + 1, (g.i + 1) * g.batch_size),
                      g.min_logl, g.num_steps, 1, None)
  /\ pc' = "kernel"
  /\ UNCHANGED <<X_init, L_init, logl_fn, X_live, L_live, arg, it, exit, V, Z,
                 Z_rest, logl_th, archive, X_new, L_new, j, g>>

\* line 89 returning to lines 186-190
GenKernelReturn ==
  /\ pc = "kernel"
  /\ k.caller = "generate_constrained_prior_samples"
  /\ k.Lchol # LcholFail
  /\ k.i = k.num_steps
  /\ g' = [g EXCEPT
             !.X_samples = @ \o Select(k.X, ReturnMask(k.C, k.num_steps)),
             !.L_samples = @ \o Select(k.logl, ReturnMask(k.C, k.num_steps)),
             !.i = @ + 1]
  /\ k' = None
  /\ pc' = "gen"
  /\ UNCHANGED <<X_init, L_init, logl_fn, X_live, L_live, arg, it, exit, V, Z,
                 Z_rest, logl_th, archive, X_new, L_new, j>>

\* line 191
GenFinish ==
  /\ pc = "gen"
  /\ g.i = g.N \div g.batch_size
  /\ pc' = "returned"
  /\ UNCHANGED <<X_init, L_init, logl_fn, X_live, L_live, arg, it, exit, V, Z,
                 Z_rest, logl_th, archive, X_new, L_new, j, k, g>>

Next ==
  \/ Construct
  \/ StartRun
  \/ LoopExhausted
  \/ ThresholdReached
  \/ LcholError
  \/ IterBegin
  \/ SliceStep
  \/ KernelReturn
  \/ ProcessCandidate
  \/ StopCheck

Spec == Init /\ [][Next]_vars

\* a sampler of two or three points, run with the standard call or up to a
\* threshold, and then asked for constrained prior samples
GenSamplers ==
  {[X |-> x, L |-> l] : x \in {<<0, 1>>, <<1, 1>>}, l \in {None, <<0, 0>>, <<0, 1>>}}
  \cup {[X |-> <<0, 1, 1>>, L |-> l] : l \in {None, <<0, 0, 0>>}}

GenInit == InitWith(GenSamplers)

GenRun ==
  /\ StartRun
  /\ arg' \in {Std, [Std EXCEPT !.logl_th_max = 0]}

GenNext ==
  \/ Construct
  \/ GenRun
  \/ LoopExhausted
  \/ ThresholdReached
  \/ LcholError
  \/ IterBegin
  \/ SliceStep
  \/ KernelReturn
  \/ ProcessCandidate
  \/ StopCheck
  \/ GenEmpty
  \/ GenStart
  \/ GenBatch
  \/ KernelFail
  \/ GenKernelReturn
  \/ GenFinish

GenSpec == GenInit /\ [][GenNext]_vars

\* ------------------------------------------------------------ properties
\* the program is inside nested_sampling, or has left its loop
InRun == pc \in {"loop", "kernel", "process"}
Started == pc \in {"loop", "kernel", "process", "done", "error"}
InCube(x) == 0 <= x /\ x <= 1

RECURSIVE RatPow(_, _, _)
RatPow(n, d, e) == IF e = 0 THEN Rat(1, 1) ELSE RMul(Rat(n, d), RatPow(n, d, e - 1))

\* C1: during a run the minimum live log-likelihood never decreases, from one
\* step to the next: across every replacement and from iteration to iteration.
C1_MonotoneThreshold ==
  [][InRun => Min(L_live') >= Min(L_live)]_vars

\* a replacement has raised the minimum above the first evicted log-likelihood
C1_Witness ==
  /\ InRun
  /\ samples_logl # <<>>
  /\ Min(L_live) > samples_logl[1]

\* C2: V is 1 at the start and (1 - 1/N)^k after k replacements; the r-th
\* logged volume is the volume before the r-th replacement, and the logged
\* volumes strictly decrease in record order.
C2_VolumeLaw ==
  Started =>
    /\ V = RatPow(NLP - 1, NLP, Len(samples_X))
    /\ Len(samples_logv) = Len(samples_X)
    /\ \A r \in 1..Len(samples_logv) : samples_logv[r] = RatPow(NLP - 1, NLP, r - 1)
    /\ \A r \in 1..(Len(samples_logv) - 1) : RLess(samples_logv[r + 1], samples_logv[r])

\* three live points and at least two records
C2_Witness ==
  /\ Started
  /\ NLP = 3
  /\ Len(samples_logv) >= 2

\* C3 as stated: each record's log weight is its log-likelihood plus the log of
\* (its logged volume / N).
C3_WeightFromLoggedVolume ==
  Started =>
    \A r \in 1..Len(samples_logwt) :
      samples_logwt[r] = RMul(Exp(samples_logl[r]), RMul(samples_logv[r], Rat(1, NLP)))

\* C3 amended: each record's log weight is its log-likelihood plus the log of
\* (V / N) for the volume V after the shrink of its replacement, which is the
\* logged volume times (1 - 1/N); it is the log of the record's dZ.
C3_WeightFromShrunkVolume ==
  Started =>
    /\ Len(samples_logwt) = Len(samples_X)
    /\ \A r \in 1..Len(samples_logwt) :
         /\ samples_logwt[r] =
              RMul(Exp(samples_logl[r]),
                   RMul(RMul(samples_logv[r], Rat(NLP - 1, NLP)), Rat(1, NLP)))
         /\ samples_logwt[r] = samples_Z[r]

\* a record of a population of three
C3_Witness ==
  /\ Started
  /\ NLP = 3
  /\ Len(samples_logwt) >= 1

\* C4 as stated: a kernel call without an Lchol argument uses the factor of the
\* live population (looked at where both that factor and the one used exist).
C4_FactorOfLivePopulation ==
  (/\ pc = "kernel"
   /\ k.LcholArg = None
   /\ k.Lchol # LcholFail
   /\ _calc_Lchol(X_live) # LcholFail) => k.Lchol = _calc_Lchol(X_live)

\* C5: what the kernel returns to the driver is, in order, the chains that had
\* an acceptable candidate at every one of the num_steps steps, each with the
\* log-likelihood of the point it is at; with num_steps >= 1 that
\* log-likelihood is above the threshold and the point is in the cube.
C5_ReturnsCompleteChains ==
  [][(pc = "kernel" /\ pc' = "process") =>
       LET complete == [b \in 1..Len(k.X) |->
                          /\ Len(k.hist[b]) = k.num_steps
                          /\ \A t \in 1..Len(k.hist[b]) : k.hist[b][t]]
       IN  /\ X_new' = Select(k.X, complete)
           /\ L_new' = Select(k.logl, complete)
           /\ k.num_steps >= 1 =>
                \A r \in 1..Len(X_new') :
                  /\ L_new'[r] = logl_fn[X_new'[r]]
                  /\ L_new'[r] > k.logl_th
                  /\ InCube(X_new'[r])]_vars

\* two slice steps were asked for and one of two chains was dropped
C5_Witness ==
  /\ pc = "process"
  /\ arg.num_steps = 2
  /\ B = 2
  /\ Len(X_new) = 1

\* C6: the returned candidates are taken in order; one above the current
\* minimum evicts the minimum point into the archive and takes its place, and
\* the first one not above it ends the batch: nothing is replaced or archived
\* until the next batch is returned.
C6_InOrderUntilFirstFailure ==
  [][/\ (pc = "kernel" /\ pc' = "process") => j' = 1
     /\ (pc = "process" /\ j <= Len(X_new)) =>
          IF L_new[j] > Min(L_live)
            THEN LET m == ArgMin(L_live)
                 IN  /\ samples_X' = Append(samples_X, X_live[m])
                     /\ samples_logl' = Append(samples_logl, L_live[m])
                     /\ X_live' = [X_live EXCEPT ![m] = X_new[j]]
                     /\ L_live' = [L_live EXCEPT ![m] = L_new[j]]
                     /\ j' = j + 1 /\ pc' = "process"
                     /\ X_new' = X_new /\ L_new' = L_new
            ELSE /\ j' > Len(X_new) /\ pc' = "process"
                 /\ X_new' = X_new /\ L_new' = L_new
                 /\ UNCHANGED <<X_live, L_live, archive>>
     /\ (pc = "process" /\ j > Len(X_new)) =>
          /\ pc' # "process"
          /\ UNCHANGED <<X_live, L_live, archive>>
     /\ pc \in {"loop", "kernel"} => UNCHANGED <<X_live, L_live, archive>>]_vars

\* in the first iteration, of three candidates the first replaced the minimum,
\* the second ended the batch and the third, above the minimum, was not taken
C6_Witness ==
  /\ pc = "process"
  /\ it = 1
  /\ Len(X_new) = 3
  /\ j = 4
  /\ Len(samples_X) = 1
  /\ L_new[2] <= Min(L_live)
  /\ L_new[3] > Min(L_live)

ConstantOracle == \A x \in Coords : logl_fn[x] = logl_fn[0]
FlatStart == L_init = None \/ \A h \in 1..Len(L_init) : L_init[h] = logl_fn[0]
FlatRun ==
  /\ Started => Min(L_live) = logl_fn[0]
  /\ logl_th \in {NegInf, logl_fn[0]}
  /\ samples_X = <<>> /\ samples_logl = <<>> /\ samples_logv = <<>>
  /\ samples_Z = <<>> /\ samples_logwt = <<>>
  /\ Started => ~Converged(Z_rest, Z, arg.epsilon)
  /\ exit \in {"none", "STEP_LIMIT_REACHED"}
  /\ pc = "done" => exit = "STEP_LIMIT_REACHED" /\ it = arg.max_steps

\* C7 as stated: with a constant oracle and logl_th_max not below the constant,
\* the threshold never rises, nothing is archived, the convergence test is
\* never true and the loop is left only at max_steps.
C7_FlatOracle ==
  (Started /\ ConstantOracle /\ arg.logl_th_max >= logl_fn[0]) => FlatRun

\* C7 amended: the same, for a run whose live log-likelihoods start at the
\* constant (L_init not given, or given as the constant).
C7_FlatOracleFlatStart ==
  (Started /\ ConstantOracle /\ FlatStart /\ arg.logl_th_max >= logl_fn[0]) => FlatRun

\* a run under a constant oracle reached the step limit
C7_Witness ==
  /\ pc = "done"
  /\ ConstantOracle /\ L_init = None
  /\ arg.logl_th_max >= logl_fn[0]
  /\ arg.num_steps >= 1
  /\ it = MaxIter
  /\ exit = "STEP_LIMIT_REACHED"

\* C8: a sampler with an initial point outside the cube is rejected, and every
\* live point of a built sampler is in the cube, in every state.
C8_LivePointsInBounds ==
  /\ pc # "new" =>
       (pc = "rejected" <=> \E h \in 1..Len(X_init) : ~InCube(X_init[h]))
  /\ \A h \in 1..Len(X_live) : InCube(X_live[h])

\* a point proposed by the kernel has replaced an initial point
C8_Witness ==
  /\ InRun
  /\ samples_X # <<>>
  /\ X_live # X_init

\* C9: in a slice step a chain moves to the first of its candidates, in the
\* order generated, that is above the threshold and in the cube, and counts
\* the step; with no such candidate its point, log-likelihood and counter stay.
C9_FirstAcceptable ==
  [][(pc = "kernel" /\ pc' = "kernel" /\ k' # k) =>
       LET b == k.b
           pX == k'.pX
           ok == {c \in 1..Len(pX) : logl_fn[pX[c]] > k.logl_th /\ InCube(pX[c])}
       IN  /\ Len(pX) = k.S
           /\ IF ok # {}
                THEN LET f == CHOOSE c \in ok : \A d \in ok : c <= d
                     IN  /\ k'.X[b] = pX[f]
                         /\ k'.logl[b] = logl_fn[pX[f]]
                         /\ k'.C[b] = k.C[b] + 1
                ELSE /\ k'.X[b] = k.X[b]
                     /\ k'.logl[b] = k.logl[b]
                     /\ k'.C[b] = k.C[b]]_vars

\* the chain just stepped had two acceptable candidates at different points
\* and is at the first
C9_Witness ==
  /\ pc = "kernel"
  /\ Len(k.pX) = 2
  /\ k.pX[1] # k.pX[2]
  /\ \A c \in 1..2 : logl_fn[k.pX[c]] > k.logl_th /\ InCube(k.pX[c])
  /\ LET b == IF k.b = 1 THEN Len(k.X) ELSE k.b - 1
     IN  k.X[b] = k.pX[1] /\ k.C[b] >= 1

\* C10: the archived log-likelihoods never decrease in record order, and none
\* is above a live log-likelihood.
C10_ArchiveBelowLive ==
  /\ \A r \in 1..(Len(samples_logl) - 1) : samples_logl[r] <= samples_logl[r + 1]
  /\ \A r \in 1..Len(samples_logl) : \A h \in 1..Len(L_live) :
       samples_logl[r] <= L_live[h]

\* two records, the second above the first
C10_Witness ==
  /\ Len(samples_logl) >= 2
  /\ samples_logl[1] < samples_logl[2]
  /\ InRun
====
